---------------------------- MODULE Spec2Model ----------------------------
(***************************************************************************)
(* A model of quickpin_api/qpi.py: the QPI client (construction and        *)
(* authentication, profile normalisation, the chunked submission           *)
(* generator, search, get, the notification stream) and the command line   *)
(* entry points cli, submit_names and submit_ids that drive it.            *)
(*                                                                         *)
(* The program has one thread of control.  pc is its position; a network   *)
(* call is two steps (the request is issued, the response arrives) so      *)
(* that the calls in flight can be counted, and the generator returned by  *)
(* submit_profiles is a frame (gen) resumed by its consumer.               *)
(*                                                                         *)
(* A Python str is a sequence of characters.  A character is written as a  *)
(* TLA+ string; a run of letters that no operation of the program looks    *)
(* into ("darpa") is written as one character.                             *)
(***************************************************************************)
EXTENDS Integers, Sequences, FiniteSets, TLC

(***************************************************************************)
(* Bounds of the model.                                                    *)
(***************************************************************************)
MaxLen == 3          \* longest list of identifiers passed to a submit_* method
MaxChunk == 2        \* largest chunk_size
MaxRows == 2         \* most rows of an input file
MaxRequests == 3     \* requests after which a consumer leaves an ended
                     \* generator alone

(***************************************************************************)
(* Python values.                                                          *)
(***************************************************************************)
\* None: a value different from every str (no str holds this character).
None == <<"NoneType">>

Str(c) == <<c>>

EmptyStr == <<>>

\* The default of `interval` and of --interval.
DefaultInterval == 5

\* The defaults of search and get: rpp=100, page=1.
DefaultRpp == 100

DefaultPage == 1

Range(s) == {s[i] : i \in DOMAIN s}

\* s[a:b] for 0 <= a, with Python's clamping of b to len(s).
Slice(s, a, b) ==
  LET e == IF b < Len(s) THEN b ELSE Len(s)
  IN  IF a >= e THEN <<>> ELSE [i \in 1..(e - a) |-> s[a + i]]

(***************************************************************************)
(* The inputs the model draws from.                                        *)
(***************************************************************************)
Identifiers == {Str("hyperiongray"), Str("darpa")}

Sites == {Str("twitter")}

\* Label lists a caller may map an identifier to.  One of them holds a
\* label that is also an identifier.
LabelLists == {<<Str("osint")>>, <<Str("darpa"), Str("osint")>>}

Intervals == {0, DefaultInterval}

\* Tokens a caller may supply and tokens the server may issue.
SuppliedTokens == {None, EmptyStr, Str("tokA")}

IssuedTokens == {Str("tokB")}

Usernames == {None, Str("user")}

Passwords == {None, Str("pw")}

\* HTTP status codes a response may carry: success, a 3xx that requests does
\* not follow (304 Not Modified), a client error and a server error.
Statuses == {200, 304, 404, 500}

\* Bodies of an authentication response: a JSON object with or without
\* the field `token`.
AuthBodies == {[has_token |-> FALSE, token |-> None]}
              \cup {[has_token |-> TRUE, token |-> t] : t \in IssuedTokens}

\* Responses to a profile POST: the status and the body.
ProfileResponses == {[status |-> 200, content |-> Str("created")],
                     [status |-> 304, content |-> EmptyStr],
                     [status |-> 500, content |-> Str("error")]}

Stubs == {FALSE}

\* Arguments of search: a plain query and one that holds "&" and "=".
Queries == {Str("darpa"), <<"osint", "&", "sort", "=", "name">>}

Types == {None, Str("profile")}

Facets == {None, Str("site")}

Sorts == {None, Str("name")}

Pages == {DefaultPage, DefaultPage + 1}

\* Events of the notification stream, decoded.
Messages == {Str("added"), Str("updated")}

\* Rows of an input file: an empty line, an empty first cell, a first cell
\* of whitespace only, an
\* identifier alone, an identifier in whitespace with a repeated label, an
\* identifier with two labels.
Rows == {<<>>,
         << <<>>, <<"osint">> >>,
         << <<" ", "\t">> >>,
         << <<"hyperiongray">> >>,
         << <<" ", "darpa", " ">>, <<"osint", ",", " ", "osint">> >>,
         << <<"hyperiongray">>, <<"darpa", ",", "osint">> >>}

SeqsUpTo(S, n) == UNION {[1..m -> S] : m \in 0..n}

VARIABLES
  pc,        \* position of the thread of control
  caller,    \* who constructs the client ("lib": a program using QPI, or
             \* "cli") and the token it was given
  config,    \* the command line's Config object
  qpi,       \* the QPI object, NoClient before construction succeeds
  wire,      \* every request issued, in order
  replies,   \* every response received, in order
  inflight,  \* number of network calls awaiting their response
  gen,       \* the frame of the submit_profiles generator
  call,      \* the arguments of the operation in progress
  results,   \* what the consumer of the generator has received
  trace,     \* the events of the run, in order, with the time of each
  clock,     \* seconds slept so far
  exc,       \* the exception raised to the caller, NoExc when none
  out,       \* lines written by click.echo and pprint
  requested  \* how many times the consumer has asked the generator for its
             \* next result

vars == <<pc, caller, config, qpi, wire, replies, inflight, gen, call,
          results, trace, clock, exc, out, requested>>

\* Lines 44-45 leave headers empty until the token is known.
NoClient == [token |-> None, headers |-> {}, authenticated |-> FALSE]

\* The generator's frame: its arguments, the loop variable chunk_start and
\* where it stands: "none" (no generator), "created" (not started),
\* "posting" (its POST is in flight), "suspended" (at the yield),
\* "closed" (returned or raised).
NoGen == [state |-> "none", profiles |-> <<>>, stub |-> FALSE,
          chunk_size |-> 1, interval |-> 0, chunk_start |-> 0]

NoCall == [op |-> "none"]

NoExc == [type |-> "None", message |-> "", status |-> 0]

auth_url == "/api/authentication/"

profile_url == "/api/profile/"

search_url == "/api/search/"

notification_url == "/api/notification/"

\* A request as it goes on the wire.  headers is a set of <<name, value>>
\* pairs.
Request(method, url, headers, body) ==
  [method |-> method, url |-> url, headers |-> headers, body |-> body]

\* A response as it is received.
Reply(method, url, status, body) ==
  [method |-> method, url |-> url, status |-> status, body |-> body]

\* An event of the run: what happened, to which endpoint (or which
\* exception, or how long a sleep), and the time it happened at.
Event(ev, arg, t) == [ev |-> ev, arg |-> arg, t |-> t]


Init ==
  /\ pc = "start"
  /\ caller = [who |-> "none", token |-> None]
  /\ config = [app_url |-> None, token |-> None]
  /\ qpi = NoClient
  /\ wire = <<>>
  /\ replies = <<>>
  /\ inflight = 0
  /\ gen = NoGen
  /\ call = NoCall
  /\ results = <<>>
  /\ trace = <<>>
  /\ clock = 0
  /\ exc = NoExc
  /\ out = <<>>
  /\ requested = 0

\* The check of the status left out.
RaisesNever(status) == FALSE

(***************************************************************************)
(* requests: Response.raise_for_status raises HTTPError for a 4xx or 5xx   *)
(* status and returns for every other status.                              *)
(***************************************************************************)
RaisesForStatus(status) == status >= 400 /\ status < 600

HTTPError(status) == [type |-> "HTTPError", message |-> "", status |-> status]

QPIError(message) == [type |-> "QPIError", message |-> message, status |-> 0]

TypeError ==
  [type |-> "TypeError", message |-> "list indices must be integers", status |-> 0]

\* An uncaught exception ends the thread of control.
Raise(e) ==
  /\ exc' = e
  /\ pc' = "raised"
  /\ trace' = Append(trace, Event("raise", e.type, clock))

(***************************************************************************)
(* QPI.__init__ and QPI.get_token.                                         *)
(***************************************************************************)
\* Line 50 without its test for the empty string.
TokenIsNone(token) == token = None

\* Line 50: the token is missing, get_token is needed.
TokenMissing(token) == token = None \/ token = EmptyStr

\* Lines 56-57: the client once it holds its token.
Authenticated(token) ==
  [token |-> token, headers |-> {<<"X-Auth", token>>}, authenticated |-> TRUE]

\* Lines 65-66: the authentication POST.
AuthRequest(username, password) ==
  Request("POST", auth_url, {}, [email |-> username, password |-> password])

\* The body of __init__ from line 44 on.  A supplied token makes the client
\* at once; without one get_token issues its POST and the thread waits for
\* the response in pc = "get_token".
Construct(token, username, password, done) ==
  IF TokenMissing(token)
  THEN IF username = None \/ password = None
       THEN /\ Raise(QPIError("Supply token, or username and password"))
            /\ UNCHANGED <<qpi, wire, inflight>>
       ELSE /\ wire' = Append(wire, AuthRequest(username, password))
            /\ inflight' = inflight + 1
            /\ trace' = Append(trace, Event("send", auth_url, clock))
            /\ pc' = "get_token"
            /\ UNCHANGED <<qpi, exc>>
  ELSE /\ qpi' = Authenticated(token)
       /\ pc' = done
       /\ UNCHANGED <<wire, inflight, trace, exc>>

\* A program constructs a client: QPI(app_url, token, username, password).
QPI_init(token, username, password) ==
  /\ pc = "start"
  /\ caller' = [who |-> "lib", token |-> token]
  /\ Construct(token, username, password, "ready")
  /\ UNCHANGED <<config, replies, gen, call, results, clock, out, requested>>

\* What the command line's prompts return for a missing option.
Prompted(option, typed) == IF option = None \/ option = EmptyStr THEN typed ELSE option

\* cli, lines 365-380: a token given on the command line is kept; otherwise
\* a client is constructed from the username and the password.
cli(token, username, password) ==
  /\ pc = "start"
  /\ caller' = [who |-> "cli", token |-> token]
  /\ IF token # None /\ token # EmptyStr
     THEN /\ config' = [app_url |-> Str("url"), token |-> token]
          /\ pc' = "command"
          /\ UNCHANGED <<qpi, wire, inflight, trace, exc>>
     ELSE /\ config' = [app_url |-> Str("url"), token |-> None]
          /\ Construct(None, Prompted(username, Str("user")),
                       Prompted(password, Str("pw")), "command")
  /\ UNCHANGED <<replies, gen, call, results, clock, out, requested>>

\* response.json().get('token'): a missing field gives None, not an error.
JsonTokenGet(body) == [exc |-> NoExc, token |-> body.token]

\* Lines 68-73: response.json()['token'], a KeyError becoming a QPIError.
JsonToken(body) ==
  IF body.has_token THEN [exc |-> NoExc, token |-> body.token]
                    ELSE [exc |-> QPIError("Authentication failed."), token |-> None]

\* get_token, lines 67-73, and the rest of __init__ (and of cli) after it.
get_token_response(status, body) ==
  /\ pc = "get_token"
  /\ inflight' = inflight - 1
  /\ replies' = Append(replies, Reply("POST", auth_url, status, body))
  /\ IF RaisesForStatus(status)
     THEN /\ exc' = HTTPError(status)
          /\ pc' = "raised"
          /\ trace' = trace \o <<Event("recv", auth_url, clock),
                                 Event("raise", "HTTPError", clock)>>
          /\ UNCHANGED <<qpi, config>>
     ELSE IF JsonToken(body).exc # NoExc
     THEN /\ exc' = JsonToken(body).exc
          /\ pc' = "raised"
          /\ trace' = trace \o <<Event("recv", auth_url, clock),
                                 Event("raise", "QPIError", clock)>>
          /\ UNCHANGED <<qpi, config>>
     ELSE /\ qpi' = Authenticated(JsonToken(body).token)
          /\ trace' = Append(trace, Event("recv", auth_url, clock))
          /\ IF caller.who = "cli"
             THEN /\ config' = [config EXCEPT !.token = qpi'.token]
                  /\ pc' = "command"
             ELSE /\ pc' = "ready"
                  /\ UNCHANGED config
          /\ UNCHANGED exc
  /\ UNCHANGED <<caller, wire, gen, call, results, clock, out, requested>>


(***************************************************************************)
(* QPI.submit_usernames and QPI.submit_user_ids: the profile records.      *)
(*                                                                         *)
(* The loop assigns to the parameter `labels` itself (lines 107-109 and    *)
(* 156-158), so from the second identifier on `labels` is the list the     *)
(* first identifier got, not the caller's dict.  A Python value of that    *)
(* variable is a dict or a list.                                           *)
(***************************************************************************)
PyDict(map) == [kind |-> "dict", map |-> map, items |-> <<>>]

PyList(items) == [kind |-> "list", map |-> <<>>, items |-> items]

\* x in labels: a key of a dict, an element of a list.
PyIn(x, labels) ==
  IF labels.kind = "dict" THEN x \in DOMAIN labels.map
                          ELSE x \in Range(labels.items)

\* Lines 160-164 and 111-115.
UsernameProfile(username, site, labels) ==
  [username |-> username, site |-> site, labels |-> labels]

UpstreamIdProfile(user_id, site, labels) ==
  [upstream_id |-> user_id, site |-> site, labels |-> labels]

MakeProfile(key, id, site, labels) ==
  IF key = "username" THEN UsernameProfile(id, site, labels)
                      ELSE UpstreamIdProfile(id, site, labels)

\* The value `labels` is rebound to for identifier x, lines 155-158 and
\* 106-109.  labels[x] on a list raises TypeError: no value.
Rebound(x, labels) ==
  IF PyIn(x, labels)
  THEN IF labels.kind = "dict" THEN [exc |-> NoExc, labels |-> PyList(labels.map[x])]
                               ELSE [exc |-> TypeError, labels |-> labels]
  ELSE [exc |-> NoExc, labels |-> PyList(<<>>)]

\* The loop of lines 154-165 and 105-116 from identifier number i on, with
\* the current value of `labels` and the profiles appended so far.
RECURSIVE BuildProfiles(_, _, _, _, _, _)
BuildProfiles(key, ids, site, labels, i, profiles) ==
  IF i > Len(ids) THEN [exc |-> NoExc, profiles |-> profiles]
  ELSE LET r == Rebound(ids[i], labels)
       IN  IF r.exc # NoExc THEN [exc |-> r.exc, profiles |-> profiles]
           ELSE BuildProfiles(key, ids, site, r.labels, i + 1,
                              Append(profiles,
                                     MakeProfile(key, ids[i], site, r.labels.items)))

\* The generator object submit_profiles returns: calling it runs none of
\* its body.
NewGen(profiles, stub, chunk_size, interval) ==
  [state |-> "created", profiles |-> profiles, stub |-> stub,
   chunk_size |-> chunk_size, interval |-> interval, chunk_start |-> 0]

\* submit_usernames and submit_user_ids, after their arguments are bound:
\* build the profiles, hand them to submit_profiles, return its generator.
SubmitIdentifiers(op, key, ids, site, stub, chunk_size, interval, labels, next, rows) ==
  LET b == BuildProfiles(key, ids, site, PyDict(labels), 1, <<>>)
  IN  /\ call' = [op |-> op, ids |-> ids, labels |-> labels, rows |-> rows]
      /\ IF b.exc # NoExc
         THEN /\ Raise(b.exc)
              /\ UNCHANGED gen
         ELSE /\ gen' = NewGen(b.profiles, stub, chunk_size, interval)
              /\ pc' = next
              /\ UNCHANGED <<trace, exc>>

\* The label mappings a caller may pass: any identifiers as keys.
LabelMaps == UNION {[D -> LabelLists] : D \in SUBSET Identifiers}

submit_usernames(usernames, site, stub, chunk_size, interval, labels) ==
  /\ pc = "ready"
  /\ call = NoCall
  /\ SubmitIdentifiers("submit_usernames", "username", usernames, site, stub,
                       chunk_size, interval, labels, "ready", <<>>)
  /\ UNCHANGED <<caller, config, qpi, wire, replies, inflight,
                 results, clock, out, requested>>

submit_user_ids(user_ids, site, stub, chunk_size, interval, labels) ==
  /\ pc = "ready"
  /\ call = NoCall
  /\ SubmitIdentifiers("submit_user_ids", "upstream_id", user_ids, site, stub,
                       chunk_size, interval, labels, "ready", <<>>)
  /\ UNCHANGED <<caller, config, qpi, wire, replies, inflight,
                 results, clock, out, requested>>

(***************************************************************************)
(* The commands submit_names and submit_ids, lines 403-435 and 467-499.    *)
(* The input file is what csv.reader makes of it: a sequence of rows,      *)
(* each a sequence of cells, an empty line being the empty row.            *)
(***************************************************************************)
Whitespace == {" ", "\t"}

\* str.strip(): without its leading and trailing whitespace.
RECURSIVE LStrip(_)
LStrip(s) == IF s # <<>> /\ Head(s) \in Whitespace THEN LStrip(Tail(s)) ELSE s

RECURSIVE RStrip(_)
RStrip(s) ==
  IF s # <<>> /\ s[Len(s)] \in Whitespace THEN RStrip(SubSeq(s, 1, Len(s) - 1)) ELSE s

\* The cell taken as it is.
NoStrip(s) == s

Strip(s) == RStrip(LStrip(s))

\* str.split(','): the pieces between the commas, cur being the piece
\* under way.
RECURSIVE SplitFrom(_, _)
SplitFrom(s, cur) ==
  IF s = <<>> THEN <<cur>>
  ELSE IF Head(s) = "," THEN <<cur>> \o SplitFrom(Tail(s), <<>>)
  ELSE SplitFrom(Tail(s), Append(cur, Head(s)))

Split(s) == SplitFrom(s, <<>>)

\* Lines 418-421: the stripped labels of a row, none without a second cell.
ProfileLabels(row) ==
  IF Len(row) < 2 THEN <<>>
  ELSE LET parts == Split(row[2]) IN [i \in DOMAIN parts |-> Strip(parts[i])]

\* The loop of lines 409-424: the identifiers kept, in order, and for each
\* the set of labels of its last row.
RECURSIVE ReadRows(_, _, _)
ReadRows(rows, ids, labels) ==
  IF rows = <<>> THEN [ids |-> ids, labels |-> labels]
  ELSE LET row == Head(rows)
           id  == IF row = <<>> THEN EmptyStr ELSE Strip(row[1])
       IN  IF row = <<>> \/ id = EmptyStr
           THEN ReadRows(Tail(rows), ids, labels)
           ELSE ReadRows(Tail(rows), Append(ids, id),
                         [k \in DOMAIN labels \cup {id} |->
                            IF k = id THEN Range(ProfileLabels(row)) ELSE labels[k]])

\* list(set(...)), line 424: the distinct labels in an order Python does
\* not fix.
Orderings(S) == {q \in [1..Cardinality(S) -> S] : Range(q) = S}

ListsOfSets(sets) ==
  {m \in [DOMAIN sets -> UNION {Orderings(sets[k]) : k \in DOMAIN sets}] :
     \A k \in DOMAIN sets : m[k] \in Orderings(sets[k])}

Echo(text) == [fn |-> "echo", value |-> text]

PPrint(value) == [fn |-> "pprint", value |-> value]

\* A command from its first line to the start of its loop over the
\* responses.  The client is made from the token cli left in config; an
\* input without identifiers is reported and the process exits (sys.exit()
\* with no argument: status 0).
SubmitCommand(op, key, input, site, stub, chunk, interval, labels) ==
  LET read == ReadRows(input, <<>>, <<>>)
  IN  /\ pc = "command"
      /\ call = NoCall
      /\ labels \in ListsOfSets(read.labels)
      /\ IF TokenMissing(config.token)
         THEN /\ Raise(QPIError("Supply token, or username and password"))
              /\ call' = [op |-> op, ids |-> <<>>, labels |-> <<>>, rows |-> input]
              /\ UNCHANGED <<qpi, gen, out>>
         ELSE /\ qpi' = Authenticated(config.token)
              /\ IF Len(read.ids) = 0
                 THEN /\ out' = Append(out, Echo("Empty file"))
                      /\ pc' = "exit"
                      /\ call' = [op |-> op, ids |-> <<>>, labels |-> <<>>, rows |-> input]
                      /\ UNCHANGED <<gen, trace, exc>>
                 ELSE /\ out' = IF op = "submit_ids" THEN Append(out, PPrint(labels))
                                                     ELSE out
                      /\ SubmitIdentifiers(op, key, read.ids, site, stub, chunk,
                                           interval, labels, "consume", input)
      /\ UNCHANGED <<caller, config, wire, replies, inflight,
                     results, clock, requested>>

submit_names(input, site, stub, chunk, interval, labels) ==
  SubmitCommand("submit_names", "username", input, site, stub, chunk, interval, labels)

submit_ids(input, site, stub, chunk, interval, labels) ==
  SubmitCommand("submit_ids", "upstream_id", input, site, stub, chunk, interval, labels)

(***************************************************************************)
(* QPI.submit_profiles: the generator's body, lines 199-216.               *)
(***************************************************************************)
\* A chunk end one short of line 203's.
ChunkEndShort(chunk_start, chunk_size) == chunk_start + chunk_size - 1

\* Line 203.
ChunkEnd(chunk_start, chunk_size) == chunk_start + chunk_size

\* Line 204.
Chunk(profiles, chunk_start, chunk_size) ==
  Slice(profiles, chunk_start, ChunkEnd(chunk_start, chunk_size))

\* Lines 205-212: the POST of one chunk, with the client's headers.
ProfileRequest(client, chunk, stub) ==
  Request("POST", profile_url, client.headers, [profiles |-> chunk, stub |-> stub])

\* The sleep left out, and a sleep cut short.
AfterSleepSkipped(now, interval) == now

AfterSleepShort(now, interval) == IF interval > 0 THEN now + interval - 1 ELSE now

\* Line 216: time.sleep(interval) returns `interval` seconds later.
AfterSleep(now, interval) == now + interval

\* A loop that steps over a chunk.
RangeNextSkip(cur, step) == cur + step + step

\* The value range(0, len(profiles), chunk_size) gives after `cur`.
RangeNext(cur, step) == cur + step

\* A generator that is resumed where it had ended.
ResumableAlways(state) == TRUE

\* A generator object runs its body once: after the body has returned (the
\* loop of line 202 ended) or raised (line 213) the frame is gone, and
\* next() raises StopIteration without running any line of it.
Resumable(state) == state # "closed"

\* The test of line 199 (and of 225, 258, 289) cannot fail: a QPI object
\* exists only once __init__ has set authenticated (line 57), and nothing
\* resets it.
\*
\* The consumer asks for the next result (next() on the generator, one
\* turn of a for loop).  A new generator enters its loop; one suspended at
\* the yield sleeps (line 216) and goes round the loop; the loop either
\* issues the POST of the next chunk or ends, which the consumer sees as
\* StopIteration.  A closed generator stops at once.  The command line's
\* loop ends at the first StopIteration and prints the results (lines 444
\* and 508); a program using the library may ask again after the end or
\* after an error it caught.
gen_next ==
  /\ pc \in {"ready", "consume"}
  /\ gen.state \in {"created", "suspended", "closed"}
  /\ Resumable(gen.state) \/ requested < MaxRequests
  /\ requested' = requested + 1
  /\ LET slept == gen.state = "suspended"
         now   == IF slept THEN AfterSleep(clock, gen.interval) ELSE clock
         start == IF slept THEN RangeNext(gen.chunk_start, gen.chunk_size)
                           ELSE gen.chunk_start
         evs   == IF slept THEN <<Event("sleep", profile_url, now)>> ELSE <<>>
     IN  IF Resumable(gen.state) /\ start < Len(gen.profiles)
         THEN /\ wire' = Append(wire, ProfileRequest(qpi,
                                   Chunk(gen.profiles, start, gen.chunk_size),
                                   gen.stub))
              /\ inflight' = inflight + 1
              /\ gen' = [gen EXCEPT !.state = "posting", !.chunk_start = start]
              /\ clock' = now
              /\ trace' = trace \o evs \o <<Event("send", profile_url, now)>>
              /\ pc' = "post"
              /\ UNCHANGED out
         ELSE /\ gen' = [gen EXCEPT !.state = "closed", !.chunk_start = start]
              /\ clock' = now
              /\ trace' = IF gen.state = "closed" THEN trace
                          ELSE trace \o evs \o <<Event("stop", profile_url, now)>>
              /\ IF pc = "consume"
                 THEN /\ out' = Append(out, [fn |-> "pprint", value |-> results])
                      /\ pc' = "done"
                 ELSE /\ pc' = "ready"
                      /\ UNCHANGED out
              /\ UNCHANGED <<wire, inflight>>
  /\ UNCHANGED <<caller, config, qpi, replies, call, results, exc>>

\* The response to a chunk's POST arrives: lines 213-215.  An HTTPError
\* closes the generator and reaches the consumer; a program using the
\* library may catch it, the command line does not.  Otherwise the content
\* is yielded and the consumer keeps it (lines 442 and 506).
post_response(status, content) ==
  /\ pc = "post"
  /\ inflight' = inflight - 1
  /\ replies' = Append(replies, Reply("POST", profile_url, status, content))
  /\ IF RaisesForStatus(status)
     THEN /\ gen' = [gen EXCEPT !.state = "closed"]
          /\ exc' = HTTPError(status)
          /\ trace' = trace \o <<Event("recv", profile_url, clock),
                                 Event("raise", "HTTPError", clock)>>
          /\ pc' = IF caller.who = "cli" THEN "raised" ELSE "ready"
          /\ UNCHANGED results
     ELSE /\ gen' = [gen EXCEPT !.state = "suspended"]
          /\ results' = Append(results, content)
          /\ trace' = trace \o <<Event("recv", profile_url, clock),
                                 Event("yield", profile_url, clock)>>
          /\ pc' = IF caller.who = "cli" THEN "consume" ELSE "ready"
          /\ UNCHANGED exc
  /\ UNCHANGED <<caller, config, qpi, wire, call, clock, out, requested>>

(***************************************************************************)
(* QPI.search, lines 258-283.                                              *)
(***************************************************************************)
\* "%s" % v for an int: its decimal digits, which nothing looks into.
FormatInt(n) == Str(ToString(n))

\* Lines 261-272: the params dict in insertion order, as <<key, value>>
\* pairs; an argument that is None adds no key.
SearchParams(query, type_, facets, rpp, page, sort) ==
  << <<Str("query"), query>>, <<Str("rpp"), FormatInt(rpp)>>,
     <<Str("page"), FormatInt(page)>> >>
  \o (IF type_ # None THEN << <<Str("type"), type_>> >> ELSE <<>>)
  \o (IF facets # None THEN << <<Str("facets"), facets>> >> ELSE <<>>)
  \o (IF sort # None THEN << <<Str("sort"), sort>> >> ELSE <<>>)

\* "%s=%s" % (k, v)
FormatPair(kv) == kv[1] \o <<"=">> \o kv[2]

\* "&".join(...), line 274: nothing is escaped.
RECURSIVE JoinAmp(_)
JoinAmp(parts) ==
  IF parts = <<>> THEN <<>>
  ELSE IF Len(parts) = 1 THEN parts[1]
  ELSE parts[1] \o <<"&">> \o JoinAmp(Tail(parts))

ParamStr(params) == JoinAmp([i \in DOMAIN params |-> FormatPair(params[i])])

\* Lines 276-279.  requests appends a str given as params to the URL as its
\* query, leaving "&" and "=" as they are.
SearchRequest(client, param_str) ==
  Request("GET", search_url, client.headers, [query_string |-> param_str])

search(query, type_, facets, rpp, page, sort) ==
  /\ pc = "ready"
  /\ call = NoCall
  /\ call' = [op |-> "search", query |-> query, type_ |-> type_,
              facets |-> facets, rpp |-> rpp, page |-> page, sort |-> sort]
  /\ wire' = Append(wire, SearchRequest(qpi,
                 ParamStr(SearchParams(query, type_, facets, rpp, page, sort))))
  /\ inflight' = inflight + 1
  /\ trace' = Append(trace, Event("send", search_url, clock))
  /\ pc' = "search"
  /\ UNCHANGED <<caller, config, qpi, replies, gen, results, clock,
                 exc, out, requested>>

\* Lines 281-283.
search_response(status) ==
  /\ pc = "search"
  /\ inflight' = inflight - 1
  /\ replies' = Append(replies, Reply("GET", search_url, status, EmptyStr))
  /\ IF RaisesForStatus(status)
     THEN /\ exc' = HTTPError(status)
          /\ pc' = "raised"
          /\ trace' = trace \o <<Event("recv", search_url, clock),
                                 Event("raise", "HTTPError", clock)>>
     ELSE /\ pc' = "ready"
          /\ trace' = Append(trace, Event("recv", search_url, clock))
          /\ UNCHANGED exc
  /\ UNCHANGED <<caller, config, qpi, wire, gen, call, results,
                 clock, out, requested>>

(***************************************************************************)
(* QPI.get, lines 225-239.                                                 *)
(***************************************************************************)
\* Lines 228-235: the params dict is handed to requests as it is.
GetRequest(client, resource, page, rpp) ==
  Request("GET", resource, client.headers,
          [params |-> << <<Str("rpp"), FormatInt(rpp)>>,
                         <<Str("page"), FormatInt(page)>> >>])

get(resource, page, rpp) ==
  /\ pc = "ready"
  /\ call = NoCall
  /\ call' = [op |-> "get", resource |-> resource, page |-> page, rpp |-> rpp]
  /\ wire' = Append(wire, GetRequest(qpi, resource, page, rpp))
  /\ inflight' = inflight + 1
  /\ trace' = Append(trace, Event("send", resource, clock))
  /\ pc' = "get"
  /\ UNCHANGED <<caller, config, qpi, replies, gen, results, clock,
                 exc, out, requested>>

get_response(status) ==
  /\ pc = "get"
  /\ inflight' = inflight - 1
  /\ replies' = Append(replies, Reply("GET", call.resource, status, EmptyStr))
  /\ IF RaisesForStatus(status)
     THEN /\ exc' = HTTPError(status)
          /\ pc' = "raised"
          /\ trace' = trace \o <<Event("recv", call.resource, clock),
                                 Event("raise", "HTTPError", clock)>>
     ELSE /\ pc' = "ready"
          /\ trace' = Append(trace, Event("recv", call.resource, clock))
          /\ UNCHANGED exc
  /\ UNCHANGED <<caller, config, qpi, wire, gen, call, results,
                 clock, out, requested>>

(***************************************************************************)
(* QPI.yield_notifications, lines 289-296.                                 *)
(***************************************************************************)
\* Line 293: the event stream is opened with the client's headers.
StreamRequest(client) ==
  Request("GET", notification_url, client.headers, [stream |-> TRUE])

\* The consumer's first next(): lines 289-293.  The connection stays open.
notifications_open ==
  /\ pc = "ready"
  /\ call = NoCall
  /\ call' = [op |-> "yield_notifications"]
  /\ out' = Append(out, [fn |-> "print", value |-> notification_url])
  /\ wire' = Append(wire, StreamRequest(qpi))
  /\ inflight' = inflight + 1
  /\ trace' = Append(trace, Event("send", notification_url, clock))
  /\ pc' = "stream"
  /\ UNCHANGED <<caller, config, qpi, replies, gen, results, clock,
                 exc, requested>>

\* Lines 295-296: an event arrives and is yielded; the consumer holds the
\* latest one.
notification(msg) ==
  /\ pc = "stream"
  /\ results' = <<msg>>
  /\ UNCHANGED <<pc, caller, config, qpi, wire, replies, inflight, gen, call,
                 trace, clock, exc, out, requested>>

\* Each operation's inputs are drawn only where the thread can start it.
Next ==
  \/ /\ pc = "start"
     /\ \E token \in SuppliedTokens, username \in Usernames, password \in Passwords :
          QPI_init(token, username, password)
  \/ /\ pc = "start"
     /\ \E token \in SuppliedTokens, username \in Usernames, password \in Passwords :
          cli(token, username, password)
  \/ /\ pc = "get_token"
     /\ \E status \in Statuses, body \in AuthBodies : get_token_response(status, body)
  \/ /\ pc = "ready" /\ call = NoCall
     /\ \E ids \in SeqsUpTo(Identifiers, MaxLen), site \in Sites, stub \in Stubs,
           chunk_size \in 1..MaxChunk, interval \in Intervals, labels \in LabelMaps :
          submit_usernames(ids, site, stub, chunk_size, interval, labels)
  \/ /\ pc = "ready" /\ call = NoCall
     /\ \E ids \in SeqsUpTo(Identifiers, MaxLen), site \in Sites, stub \in Stubs,
           chunk_size \in 1..MaxChunk, interval \in Intervals, labels \in LabelMaps :
          submit_user_ids(ids, site, stub, chunk_size, interval, labels)
  \/ /\ pc = "command" /\ call = NoCall
     /\ \E input \in SeqsUpTo(Rows, MaxRows), site \in Sites, stub \in Stubs,
           chunk \in 1..MaxChunk, interval \in Intervals :
          \E labels \in ListsOfSets(ReadRows(input, <<>>, <<>>).labels) :
            submit_names(input, site, stub, chunk, interval, labels)
  \/ /\ pc = "command" /\ call = NoCall
     /\ \E input \in SeqsUpTo(Rows, MaxRows), site \in Sites, stub \in Stubs,
           chunk \in 1..MaxChunk, interval \in Intervals :
          \E labels \in ListsOfSets(ReadRows(input, <<>>, <<>>).labels) :
            submit_ids(input, site, stub, chunk, interval, labels)
  \/ gen_next
  \/ /\ pc = "post"
     /\ \E r \in ProfileResponses : post_response(r.status, r.content)
  \/ /\ pc = "ready" /\ call = NoCall
     /\ \E query \in Queries, type_ \in Types, facets \in Facets, page \in Pages,
           sort \in Sorts :
          search(query, type_, facets, DefaultRpp, page, sort)
  \/ /\ pc = "search"
     /\ \E status \in Statuses : search_response(status)
  \/ /\ pc = "ready" /\ call = NoCall
     /\ \E page \in Pages : get(profile_url, page, DefaultRpp)
  \/ /\ pc = "get"
     /\ \E status \in Statuses : get_response(status)
  \/ notifications_open
  \/ \E msg \in Messages : notification(msg)

Spec == Init /\ [][Next]_vars


(***************************************************************************)
(* What the properties below read off the run.                             *)
(***************************************************************************)
\* The POSTs to the profile endpoint, in the order issued, and their chunks.
ProfilePosts ==
  SelectSeq(wire, LAMBDA r : r.method = "POST" /\ r.url = profile_url)

PostedChunks == [i \in DOMAIN ProfilePosts |-> ProfilePosts[i].body.profiles]

\* The responses to them, in the order received.
ProfileReplies ==
  SelectSeq(replies, LAMBDA r : r.method = "POST" /\ r.url = profile_url)

RECURSIVE Flatten(_)
Flatten(seqs) == IF seqs = <<>> THEN <<>> ELSE Head(seqs) \o Flatten(Tail(seqs))

\* ceil(n / k) for k >= 1.
CeilDiv(n, k) == CHOOSE m \in 0..n : m * k >= n /\ (m = 0 \/ (m - 1) * k < n)

\* The generator's loop ran to its end.
Exhausted == \E i \in DOMAIN trace : trace[i].ev = "stop"

Is2xx(status) == status \in 200..299

(***************************************************************************)
(* C1: submit_profiles cuts the profile list of length n, for chunk_size   *)
(* k >= 1, into contiguous chunks from index 0 on: at every moment the     *)
(* chunks POSTed so far, concatenated in the order POSTed, are a prefix of *)
(* the list, every chunk has k profiles except possibly the last one,      *)
(* which is non-empty, has at most k and then ends the list; and when the  *)
(* loop has run to its end there are exactly ceil(n/k) chunks and their    *)
(* concatenation is the whole list.                                        *)
(***************************************************************************)
C1_ChunksPartitionTheList ==
  gen.state # "none" =>
    LET n == Len(gen.profiles)
        k == gen.chunk_size
        chunks == PostedChunks
        flat == Flatten(chunks)
    IN  /\ Len(flat) <= n
        /\ flat = SubSeq(gen.profiles, 1, Len(flat))
        /\ \A i \in DOMAIN chunks :
             \/ Len(chunks[i]) = k
             \/ /\ i = Len(chunks)
                /\ Len(chunks[i]) >= 1
                /\ Len(chunks[i]) <= k
                /\ flat = gen.profiles
        /\ Exhausted => Len(chunks) = CeilDiv(n, k) /\ flat = gen.profiles

\* A list of three profiles went out in chunks of two: two chunks, the last
\* one shorter.
C1_Witness ==
  /\ Exhausted
  /\ Len(gen.profiles) = 3
  /\ gen.chunk_size = 2
  /\ Len(PostedChunks) = 2
  /\ Len(PostedChunks[2]) = 1


SubmitOps == {"submit_usernames", "submit_user_ids", "submit_names", "submit_ids"}

(***************************************************************************)
(* C2: every profile record submit_usernames or submit_user_ids produces,  *)
(* at every position of the list, carries as its labels the mapping's      *)
(* value for its own identifier, or no labels when the identifier is not   *)
(* a key of the mapping.                                                   *)
(***************************************************************************)
C2_LabelsOfOwnIdentifier ==
  (call.op \in SubmitOps /\ gen.state # "none") =>
    \A i \in DOMAIN gen.profiles :
      gen.profiles[i].labels =
        IF call.ids[i] \in DOMAIN call.labels THEN call.labels[call.ids[i]]
                                              ELSE <<>>

(***************************************************************************)
(* C3 as stated: a non-2xx response to the POST of chunk i aborts the run  *)
(* with an HTTP error: chunk i is the last one POSTed, for good, and the   *)
(* consumer holds exactly the results of chunks 1..i-1, in order.          *)
(***************************************************************************)
AbortedAt(i) ==
  /\ i = Len(ProfileReplies)
  /\ Len(ProfilePosts) = i
  /\ gen.state = "closed"
  /\ exc.type = "HTTPError"
  /\ results = [j \in 1..(i - 1) |-> ProfileReplies[j].body]

IsErrorStatus(status) == status \in 400..599

CountEvents(ev) == Cardinality({i \in DOMAIN trace : trace[i].ev = ev})

(***************************************************************************)
(* C4 as stated: a sleep happens only between two consecutive POSTs, a run *)
(* over m chunks sleeps m-1 times, and there is no sleep after the last    *)
(* chunk's result.                                                         *)
(***************************************************************************)
C4_NoSleepAfterLastChunk ==
  /\ \A i \in DOMAIN trace :
       trace[i].ev = "sleep" => i < Len(trace) /\ trace[i + 1].ev = "send"
  /\ (Exhausted /\ Len(ProfilePosts) >= 1) =>
       CountEvents("sleep") = Len(ProfilePosts) - 1

(***************************************************************************)
(* C4 amended: the submitter sleeps `interval` seconds after every chunk   *)
(* whose result it produced, the last chunk included, at the moment the    *)
(* consumer asks for the next result: every sleep directly follows a       *)
(* yield, there is one sleep per result the consumer has moved on from,    *)
(* and a fully consumed run over m chunks sleeps exactly m times, m-1      *)
(* times between two consecutive POSTs and once after the last result.     *)
(***************************************************************************)
C4_SleepAfterEveryChunk ==
  gen.state # "none" =>
    /\ \A i \in DOMAIN trace :
         trace[i].ev = "sleep" =>
           /\ i > 1 /\ trace[i - 1].ev = "yield"
           /\ i < Len(trace) /\ trace[i + 1].ev \in {"send", "stop"}
           /\ trace[i].t = trace[i - 1].t + gen.interval
    /\ CountEvents("sleep") =
         CountEvents("yield") - (IF gen.state = "suspended" THEN 1 ELSE 0)
    /\ clock = CountEvents("sleep") * gen.interval
    /\ Exhausted => CountEvents("sleep") = Len(ProfilePosts)

\* A run over two chunks, 5 seconds apart, fully consumed: two sleeps.
C4_Witness ==
  /\ Exhausted
  /\ Len(ProfilePosts) = 2
  /\ gen.interval = DefaultInterval
  /\ CountEvents("sleep") = 2
  /\ clock = 2 * DefaultInterval

\* Requests issued less responses received among the first p events.
InFlightAfter(p) ==
  Cardinality({i \in 1..p : trace[i].ev = "send"})
    - Cardinality({i \in 1..p : trace[i].ev = "recv"})

(***************************************************************************)
(* C5: chunk submission is strictly sequential.  At no moment is more than *)
(* one network call in flight, and the POST of a chunk is issued only      *)
(* after the response to every earlier chunk was received and `interval`   *)
(* seconds have passed since.                                              *)
(***************************************************************************)
C5_StrictlySequential ==
  /\ inflight \in {0, 1}
  /\ \A p \in DOMAIN trace : InFlightAfter(p) \in {0, 1}
  /\ \A q \in DOMAIN trace :
       (trace[q].ev = "send" /\ trace[q].arg = profile_url) =>
         \A p \in 1..(q - 1) :
           /\ (trace[p].ev = "send" /\ trace[p].arg = profile_url) =>
                \E r \in (p + 1)..(q - 1) :
                  trace[r].ev = "recv" /\ trace[r].arg = profile_url
           /\ (trace[p].ev = "recv" /\ trace[p].arg = profile_url) =>
                trace[q].t >= trace[p].t + gen.interval

\* A third chunk went out with 5 seconds between the chunks.
C5_Witness ==
  /\ Len(ProfilePosts) = 3
  /\ gen.interval = DefaultInterval
  /\ inflight = 1

All2xx == \A i \in DOMAIN ProfileReplies : Is2xx(ProfileReplies[i].status)

\* The i-th piece of k of a list.
Piece(list, i, k) ==
  SubSeq(list, (i - 1) * k + 1, IF i * k < Len(list) THEN i * k ELSE Len(list))

(***************************************************************************)
(* C6: every chunk is POSTed at most once, none is skipped: the i-th POST  *)
(* carries the i-th piece of the list.  A fully consumed submission of n   *)
(* profiles in chunks of k whose responses are all 2xx issues exactly      *)
(* ceil(n/k) POSTs and yields one result per POST, in the same order; two  *)
(* usernames with chunk_size 1 make two POSTs of one profile each, in the  *)
(* order given.                                                            *)
(***************************************************************************)
C6_EachChunkPostedOnce ==
  gen.state # "none" =>
    LET n == Len(gen.profiles)
        k == gen.chunk_size
    IN  /\ \A i \in DOMAIN PostedChunks :
             /\ (i - 1) * k < n
             /\ PostedChunks[i] = Piece(gen.profiles, i, k)
        /\ Len(ProfilePosts) - Len(ProfileReplies) \in {0, 1}
        /\ (Exhausted /\ All2xx) =>
             /\ Len(ProfilePosts) = CeilDiv(n, k)
             /\ Len(results) = Len(ProfilePosts)
             /\ \A i \in DOMAIN results : results[i] = ProfileReplies[i].body
        /\ (/\ Exhausted /\ All2xx
            /\ call.op = "submit_usernames"
            /\ call.ids = <<Str("hyperiongray"), Str("darpa")>>
            /\ k = 1) =>
             /\ Len(ProfilePosts) = 2
             /\ \A i \in 1..2 :
                  /\ Len(PostedChunks[i]) = 1
                  /\ PostedChunks[i][1].username = call.ids[i]

\* The two usernames of the example, one per POST, both answered 200.
C6_Witness ==
  /\ Exhausted
  /\ All2xx
  /\ call.op = "submit_usernames"
  /\ call.ids = <<Str("hyperiongray"), Str("darpa")>>
  /\ gen.chunk_size = 1
  /\ Len(results) = 2

AuthPosts == SelectSeq(wire, LAMBDA r : r.method = "POST" /\ r.url = auth_url)

AuthReplies == SelectSeq(replies, LAMBDA r : r.method = "POST" /\ r.url = auth_url)

\* The outcomes of get_token and of the construction that called it.
TokenReturned(token) == qpi.authenticated /\ qpi.token = token

AuthFailedWith(e) == pc = "raised" /\ exc = e /\ qpi = NoClient

TokenSupplied == caller.token # None /\ caller.token # EmptyStr

ExpectedToken ==
  IF TokenSupplied THEN caller.token
  ELSE IF AuthReplies # <<>> THEN AuthReplies[1].body.token
  ELSE None

(***************************************************************************)
(* C8: once a client is constructed, its token is the supplied one when a  *)
(* non-empty token was given (and then no authentication POST was made)    *)
(* and otherwise the one the single authentication POST returned; it       *)
(* stays that token for as long as the client lives, and every request     *)
(* issued after construction (profile POST, search GET, resource GET,      *)
(* notification stream) carries the header X-Auth with that token.         *)
(***************************************************************************)
C8_XAuthOnEveryRequest ==
  qpi.authenticated =>
    /\ qpi.token = ExpectedToken
    /\ qpi.headers = {<<"X-Auth", ExpectedToken>>}
    /\ Len(AuthPosts) = (IF TokenSupplied THEN 0 ELSE 1)
    /\ \A i \in DOMAIN wire :
         wire[i].url # auth_url => wire[i].headers = {<<"X-Auth", ExpectedToken>>}

\* A client that authenticated with its password has POSTed a chunk.
C8_Witness ==
  /\ qpi.authenticated
  /\ ~TokenSupplied
  /\ Len(wire) = 2
  /\ wire[2].url = profile_url
  /\ wire[2].headers = {<<"X-Auth", Str("tokB")>>}

\* No row has a first cell with anything but whitespace in it.
NoUsableIdentifier(rows) ==
  \A i \in DOMAIN rows :
    rows[i] = <<>> \/ \A j \in DOMAIN rows[i][1] : rows[i][1][j] \in {" ", "\t"}

(***************************************************************************)
(* C9: when the input file yields no usable identifier (no row, or every   *)
(* row's first cell empty once trimmed), submit_names and submit_ids       *)
(* report 'Empty file', exit cleanly and POST nothing.                     *)
(***************************************************************************)
C9_EmptyFileNoPost ==
  (call.op \in {"submit_names", "submit_ids"} /\ NoUsableIdentifier(call.rows)) =>
    /\ pc = "exit"
    /\ exc = NoExc
    /\ Len(out) = 1 /\ out[1].fn = "echo" /\ out[1].value = "Empty file"
    /\ gen.state = "none"
    /\ ProfilePosts = <<>>
    /\ Len(wire) = Len(AuthPosts)
    /\ inflight = 0

\* A file of an empty line and a line of whitespace was reported empty.
C9_Witness ==
  /\ call.op = "submit_names"
  /\ call.rows = << <<>>, << <<" ", "\t">> >> >>
  /\ pc = "exit"

\* What a server reads in a query string: the pieces between the "&", and
\* of each piece the key before its first "=".
RECURSIVE SplitAt(_, _, _)
SplitAt(s, sep, cur) ==
  IF s = <<>> THEN <<cur>>
  ELSE IF Head(s) = sep THEN <<cur>> \o SplitAt(Tail(s), sep, <<>>)
  ELSE SplitAt(Tail(s), sep, Append(cur, Head(s)))

RECURSIVE Before(_, _)
Before(s, c) ==
  IF s = <<>> \/ Head(s) = c THEN <<>> ELSE <<Head(s)>> \o Before(Tail(s), c)

QueryPieces(qs) == Range(SplitAt(qs, "&", <<>>))

QueryKeys(qs) == {Before(piece, "=") : piece \in QueryPieces(qs)}

SearchQueryString == wire[Len(wire)].body.query_string

(***************************************************************************)
(* C10: the query string of a search holds a key=value pair for type,      *)
(* facets and sort exactly when that argument is not None and has no such  *)
(* key otherwise; query, rpp and page are always there.  The search for    *)
(* "darpa" of type "profile" sends query=darpa and type=profile and no     *)
(* facets or sort key.                                                     *)
(***************************************************************************)
C10_KeysOfSuppliedArguments ==
  call.op = "search" =>
    LET keys == QueryKeys(SearchQueryString)
    IN  /\ (Str("type") \in keys) <=> (call.type_ # None)
        /\ (Str("facets") \in keys) <=> (call.facets # None)
        /\ (Str("sort") \in keys) <=> (call.sort # None)
        /\ {Str("query"), Str("rpp"), Str("page")} \subseteq keys
        /\ (/\ call.query = Str("darpa") /\ call.type_ = Str("profile")
            /\ call.facets = None /\ call.sort = None) =>
             /\ <<"query", "=", "darpa">> \in QueryPieces(SearchQueryString)
             /\ <<"type", "=", "profile">> \in QueryPieces(SearchQueryString)

\* The generator's body has ended at event i of the run: its loop returned
\* or its POST raised.
EndedAt(i) == trace[i].ev \in {"stop", "raise"}

\* A POST of profiles is issued at event j of the run.
ProfilePostAt(j) == trace[j].ev = "send" /\ trace[j].arg = profile_url

(***************************************************************************)
(* C11: submission is lazy and driven by the consumer.  Calling            *)
(* submit_profiles, submit_usernames or submit_user_ids issues no POST:    *)
(* as long as the consumer has asked for nothing, nothing was POSTed.  The *)
(* POST of chunk k is issued while the consumer's k-th request is served,  *)
(* so the POSTs issued are never more than the results requested, and a    *)
(* consumer that has received j results and asked for no more has caused   *)
(* exactly j POSTs.  The sequence is one-shot: once the generator is       *)
(* exhausted or has failed, asking again issues no POST.                   *)
(***************************************************************************)
C11_LazyOneShot ==
  gen.state # "none" =>
    LET posts == Len(ProfilePosts)
    IN  /\ requested = 0 => posts = 0
        /\ posts <= requested
        /\ gen.state = "posting" => posts = requested
        /\ requested = Len(results) => posts = Len(results)
        /\ \A j \in DOMAIN trace :
             ProfilePostAt(j) => \A i \in 1..(j - 1) : ~EndedAt(i)

\* A consumer received one result, its second request failed with an
\* HTTPError it caught, and it asked a third time: two POSTs for three
\* requests, chunks still unsent.
C11_Witness ==
  /\ gen.state = "closed"
  /\ exc.type = "HTTPError"
  /\ Len(results) = 1
  /\ requested = 3
  /\ Len(ProfilePosts) = 2
  /\ Len(Flatten(PostedChunks)) < Len(gen.profiles)

============================================================================
